---- MODULE Spec2Model ----
(***************************************************************************)
(* jobscli.py: command-line client of the itjobs.pt listings API and of    *)
(* the teamlyzer.com review site.  The file holds two programs, TP1 (top,  *)
(* search, type, skills) and TP2 (get jobID, statistics zone, list         *)
(* skills).  A text is a sequence of one-character strings, a JSON value   *)
(* is a tagged record, a job is a function from its keys to JSON values.   *)
(***************************************************************************)
EXTENDS Integers, Sequences, FiniteSets, TLC

\* ------------------------------------------------------------------ text
Digits == {"0", "1", "2", "3", "4", "5", "6", "7", "8", "9"}

Whitespace == {" ", "\t"}

IsDigit(c) == c \in Digits

DigitVal(c) ==
  CASE c = "0" -> 0 [] c = "1" -> 1 [] c = "2" -> 2 [] c = "3" -> 3
    [] c = "4" -> 4 [] c = "5" -> 5 [] c = "6" -> 6 [] c = "7" -> 7
    [] c = "8" -> 8 [] c = "9" -> 9

SetMin(S) == CHOOSE x \in S : \A y \in S : x <= y

\* n digits of s starting at position i
AllDigits(s, i, n) == i >= 1 /\ i + n - 1 <= Len(s) /\ \A j \in i..(i + n - 1) : IsDigit(s[j])

RECURSIVE IntOf(_, _, _)
IntOf(s, i, n) == IF n = 0 THEN 0 ELSE IntOf(s, i, n - 1) * 10 + DigitVal(s[i + n - 1])

RECURSIVE LStrip(_)
LStrip(s) == IF s # <<>> /\ Head(s) \in Whitespace THEN LStrip(Tail(s)) ELSE s

RECURSIVE RStrip(_)
RStrip(s) == IF s # <<>> /\ s[Len(s)] \in Whitespace THEN RStrip(SubSeq(s, 1, Len(s) - 1)) ELSE s

\* str.strip()
strip(s) == RStrip(LStrip(s))

\* kw in s
Contains(s, kw) ==
  \E i \in 1..(Len(s) - Len(kw) + 1) : SubSeq(s, i, i + Len(kw) - 1) = kw

\* ------------------------------------------------------------- datetime
\* a naive datetime; NoDate stands for None (year 0 is below MINYEAR)
NoDate == [y |-> 0, mo |-> 0, d |-> 0, h |-> 0, mi |-> 0, sec |-> 0]

DateTime(y, mo, d, h, mi, sec) == [y |-> y, mo |-> mo, d |-> d, h |-> h, mi |-> mi, sec |-> sec]

\* the values datetime(y, m, d) accepts
ValidDate(y, m, d) ==
  LET leap == (y % 4 = 0 /\ y % 100 # 0) \/ y % 400 = 0
      days == IF m \in {4, 6, 9, 11} THEN 30
              ELSE IF m = 2 THEN (IF leap THEN 29 ELSE 28)
              ELSE 31
  IN y \in 1..9999 /\ m \in 1..12 /\ d >= 1 /\ d <= days

ValidTime(h, mi, sec) == h \in 0..23 /\ mi \in 0..59 /\ sec \in 0..59

\* a < b, a <= b on datetimes
DtKey(a) == <<a.y, a.mo, a.d, a.h, a.mi, a.sec>>

RECURSIVE TupleLess(_, _)
TupleLess(a, b) ==
  IF a = <<>> THEN FALSE
  ELSE IF Head(a) # Head(b) THEN Head(a) < Head(b)
  ELSE TupleLess(Tail(a), Tail(b))

DtLess(a, b) == TupleLess(DtKey(a), DtKey(b))

DtLeq(a, b) == a = b \/ DtLess(a, b)

\* ------------------------------------------------- parse_date_flexible
\* \d{4}-\d{2}-\d{2} at position i
IsoDateAt(s, i) ==
  /\ i + 9 <= Len(s)
  /\ AllDigits(s, i, 4) /\ s[i + 4] = "-"
  /\ AllDigits(s, i + 5, 2) /\ s[i + 7] = "-"
  /\ AllDigits(s, i + 8, 2)

\* [T\s]\d{2}:\d{2}:\d{2} at position i
IsoTimeAt(s, i) ==
  /\ i + 8 <= Len(s)
  /\ s[i] \in ({"T"} \cup Whitespace)
  /\ AllDigits(s, i + 1, 2) /\ s[i + 3] = ":"
  /\ AllDigits(s, i + 4, 2) /\ s[i + 6] = ":"
  /\ AllDigits(s, i + 7, 2)

\* datetime.fromisoformat of the leftmost match of the ISO pattern, NoDate
\* when there is no match or the match is not a calendar value
IsoSearch(s) ==
  LET M == {i \in 1..Len(s) : IsoDateAt(s, i)} IN
  IF M = {} THEN NoDate
  ELSE LET i == SetMin(M)
           y == IntOf(s, i, 4)
           mo == IntOf(s, i + 5, 2)
           d == IntOf(s, i + 8, 2)
       IN IF ~ValidDate(y, mo, d) THEN NoDate
          ELSE IF IsoTimeAt(s, i + 10)
               THEN LET h == IntOf(s, i + 11, 2)
                        mi == IntOf(s, i + 14, 2)
                        sec == IntOf(s, i + 17, 2)
                    IN IF ValidTime(h, mi, sec) THEN DateTime(y, mo, d, h, mi, sec) ELSE NoDate
               ELSE DateTime(y, mo, d, 0, 0, 0)

\* a %d or %m field of strptime: one or two digits, or for %d " " and a digit
DayField(s, i, n) ==
  \/ n \in 1..2 /\ AllDigits(s, i, n)
  \/ n = 2 /\ s[i] = " " /\ IsDigit(s[i + 1])

FieldVal(s, i, n) == IF s[i] = " " THEN DigitVal(s[i + 1]) ELSE IntOf(s, i, n)

\* datetime.strptime(s, fmt) for the formats %d<sep>%m<sep>%Y (yfirst
\* FALSE) and %Y<sep>%m<sep>%d (yfirst TRUE); NoDate for ValueError
Strptime(s, sep, yfirst) ==
  LET P == {i \in 1..Len(s) : s[i] = sep} IN
  IF Cardinality(P) # 2 THEN NoDate
  ELSE LET p1 == SetMin(P)
           p2 == CHOOSE x \in P : \A y \in P : x >= y
           l1 == p1 - 1
           l2 == p2 - p1 - 1
           l3 == Len(s) - p2
       IN IF yfirst
          THEN IF /\ l1 = 4 /\ AllDigits(s, 1, 4)
                  /\ l2 \in 1..2 /\ AllDigits(s, p1 + 1, l2)
                  /\ DayField(s, p2 + 1, l3)
                  /\ ValidDate(IntOf(s, 1, 4), IntOf(s, p1 + 1, l2), FieldVal(s, p2 + 1, l3))
               THEN DateTime(IntOf(s, 1, 4), IntOf(s, p1 + 1, l2), FieldVal(s, p2 + 1, l3), 0, 0, 0)
               ELSE NoDate
          ELSE IF /\ l3 = 4 /\ AllDigits(s, p2 + 1, 4)
                  /\ l2 \in 1..2 /\ AllDigits(s, p1 + 1, l2)
                  /\ DayField(s, 1, l1)
                  /\ ValidDate(IntOf(s, p2 + 1, 4), IntOf(s, p1 + 1, l2), FieldVal(s, 1, l1))
               THEN DateTime(IntOf(s, p2 + 1, 4), IntOf(s, p1 + 1, l2), FieldVal(s, 1, l1), 0, 0, 0)
               ELSE NoDate

\* the formats tried in order, first success wins
StrptimeFormats(s) ==
  LET a == Strptime(s, "-", FALSE)
      b == Strptime(s, "-", TRUE)
      c == Strptime(s, "/", FALSE)
      e == Strptime(s, "/", TRUE)
  IN IF a # NoDate THEN a
     ELSE IF b # NoDate THEN b
     ELSE IF c # NoDate THEN c
     ELSE e

\* position after an optional non-digit at j
SkipNonDigit(s, j) == IF j <= Len(s) /\ ~IsDigit(s[j]) THEN j + 1 ELSE j

\* (\d{4})[^\d]?(\d{2})[^\d]?(\d{2}) at position i
LooseAt(s, i) ==
  /\ AllDigits(s, i, 4)
  /\ AllDigits(s, SkipNonDigit(s, i + 4), 2)
  /\ AllDigits(s, SkipNonDigit(s, SkipNonDigit(s, i + 4) + 2), 2)

LooseSearch(s) ==
  LET M == {i \in 1..Len(s) : LooseAt(s, i)} IN
  IF M = {} THEN NoDate
  ELSE LET i == SetMin(M)
           j == SkipNonDigit(s, i + 4)
           k == SkipNonDigit(s, j + 2)
           y == IntOf(s, i, 4)
           mo == IntOf(s, j, 2)
           d == IntOf(s, k, 2)
       IN IF ValidDate(y, mo, d) THEN DateTime(y, mo, d, 0, 0, 0) ELSE NoDate

parse_date_flexible(s0) ==
  IF s0 = <<>> THEN NoDate
  ELSE LET s == strip(s0)
           iso == IsoSearch(s)
           fmt == StrptimeFormats(s)
       IN IF iso # NoDate THEN iso
          ELSE IF fmt # NoDate THEN fmt
          ELSE LooseSearch(s)

\* ---------------------------------------------------------- JSON values
Null == [t |-> "null"]

Str(s) == [t |-> "str", v |-> s]

Num(n) == [t |-> "num", v |-> n]

Obj(f) == [t |-> "obj", v |-> f]

List(xs) == [t |-> "list", v |-> xs]

\* an exception leaving the function
Raise(e) == [t |-> "raise", v |-> e]

\* a datetime as a returned value
Dt(d) == [t |-> "datetime", v |-> d]

EmptyDict == [k \in {} |-> Null]

\* bool(x)
Truthy(x) ==
  CASE x.t = "null" -> FALSE
    [] x.t = "str" -> Len(x.v) > 0
    [] x.t = "num" -> x.v # 0
    [] x.t = "obj" -> DOMAIN x.v # {}
    [] x.t = "list" -> Len(x.v) > 0
    [] OTHER -> TRUE

\* dict.get(k) and dict.get(k, default)
Get(job, k) == IF k \in DOMAIN job THEN job[k] ELSE Null

GetD(job, k, default) == IF k \in DOMAIN job THEN job[k] ELSE default

\* x or y
Or(x, y) == IF Truthy(x) THEN x ELSE y

RECURSIVE Join(_, _)
Join(sep, parts) ==
  IF parts = <<>> THEN <<>>
  ELSE IF Len(parts) = 1 THEN parts[1]
  ELSE parts[1] \o sep \o Join(sep, Tail(parts))

RECURSIVE SelectTruthy(_)
SelectTruthy(xs) ==
  IF xs = <<>> THEN <<>>
  ELSE IF Truthy(Head(xs)) THEN <<Head(xs)>> \o SelectTruthy(Tail(xs))
  ELSE SelectTruthy(Tail(xs))

\* " ".join(filter(None, xs)): TypeError when a kept item is not a str
JoinFiltered(xs) ==
  LET kept == SelectTruthy(xs) IN
  IF \E i \in 1..Len(kept) : kept[i].t # "str" THEN Raise("TypeError")
  ELSE Str(Join(<<" ">>, [i \in 1..Len(kept) |-> kept[i].v]))

RECURSIVE NatText(_)
NatText(n) ==
  LET c == CHOOSE ch \in Digits : DigitVal(ch) = n % 10 IN
  IF n < 10 THEN <<c>> ELSE NatText(n \div 10) \o <<c>>

\* str(n) of an int
IntText(n) == IF n < 0 THEN <<"-">> \o NatText(0 - n) ELSE NatText(n)

\* the keys of the nested objects, in the order the service writes them
KeyOrder == <<"id", "name", "salary", "type">>

KeyText(k) ==
  CASE k = "id" -> <<"i","d">>
    [] k = "name" -> <<"n","a","m","e">>
    [] k = "salary" -> <<"s","a","l","a","r","y">>
    [] k = "type" -> <<"t","y","p","e">>

RECURSIVE KeysOf(_, _)
KeysOf(f, i) ==
  IF i > Len(KeyOrder) THEN <<>>
  ELSE IF KeyOrder[i] \in DOMAIN f THEN <<KeyOrder[i]>> \o KeysOf(f, i + 1)
  ELSE KeysOf(f, i + 1)

\* the characters of a str as json.dumps writes them
RECURSIVE JsonChars(_, _)
JsonChars(s, ascii) ==
  IF s = <<>> THEN <<>>
  ELSE (CASE Head(s) = "\"" -> <<"\\", "\"">>
          [] Head(s) = "\\" -> <<"\\", "\\">>
          [] Head(s) = "\t" -> <<"\\", "t">>
          [] ascii /\ Head(s) = "í" -> <<"\\", "u", "0", "0", "e", "d">>
          [] ascii /\ Head(s) = "Í" -> <<"\\", "u", "0", "0", "c", "d">>
          [] OTHER -> <<Head(s)>>) \o JsonChars(Tail(s), ascii)

\* json.dumps(x, ensure_ascii = ascii)
RECURSIVE JsonDump(_, _)
JsonDump(x, ascii) ==
  CASE x.t = "null" -> <<"n","u","l","l">>
    [] x.t = "str" -> <<"\"">> \o JsonChars(x.v, ascii) \o <<"\"">>
    [] x.t = "num" -> IntText(x.v)
    [] x.t = "list" ->
         <<"[">> \o Join(<<",", " ">>, [i \in 1..Len(x.v) |-> JsonDump(x.v[i], ascii)]) \o <<"]">>
    [] x.t = "obj" ->
         LET ks == KeysOf(x.v, 1) IN
         <<"{">> \o Join(<<",", " ">>,
                         [i \in 1..Len(ks) |->
                            <<"\"">> \o KeyText(ks[i]) \o <<"\"", ":", " ">> \o JsonDump(x.v[ks[i]], ascii)])
                 \o <<"}">>

json_dumps(x) == JsonDump(x, TRUE)

\* repr(x) and str(x)
RECURSIVE repr(_)
repr(x) ==
  CASE x.t = "null" -> <<"N","o","n","e">>
    [] x.t = "str" -> <<"'">> \o x.v \o <<"'">>
    [] x.t = "num" -> IntText(x.v)
    [] x.t = "list" ->
         <<"[">> \o Join(<<",", " ">>, [i \in 1..Len(x.v) |-> repr(x.v[i])]) \o <<"]">>
    [] x.t = "obj" ->
         LET ks == KeysOf(x.v, 1) IN
         <<"{">> \o Join(<<",", " ">>,
                         [i \in 1..Len(ks) |->
                            <<"'">> \o KeyText(ks[i]) \o <<"'", ":", " ">> \o repr(x.v[ks[i]])])
                 \o <<"}">>

str(x) == IF x.t = "str" THEN x.v ELSE repr(x)

Upper == <<"A","B","C","D","E","F","G","H","I","J","K","L","M","N","O","P","Q","R","S","T","U","V","W","X","Y","Z","Í">>

Lower == <<"a","b","c","d","e","f","g","h","i","j","k","l","m","n","o","p","q","r","s","t","u","v","w","x","y","z","í">>

\* str.lower()
lower(s) ==
  [i \in 1..Len(s) |->
     IF \E k \in 1..Len(Upper) : Upper[k] = s[i]
     THEN Lower[CHOOSE k \in 1..Len(Upper) : Upper[k] = s[i]]
     ELSE s[i]]

\* ------------------------------------------- record field extractors (TP1)
\* datetime.fromtimestamp(n) with the local zone at UTC; NoDate when the
\* year leaves 1..9999
fromtimestamp(n) ==
  LET days == n \div 86400
      secs == n % 86400
      z == days + 719468
      era == z \div 146097
      doe == z - era * 146097
      yoe == (doe - doe \div 1460 + doe \div 36524 - doe \div 146096) \div 365
      doy == doe - (365 * yoe + yoe \div 4 - yoe \div 100)
      mp == (5 * doy + 2) \div 153
      d == doy - (153 * mp + 2) \div 5 + 1
      m == IF mp < 10 THEN mp + 3 ELSE mp - 9
      y == yoe + era * 400 + (IF m <= 2 THEN 1 ELSE 0)
  IN IF y \in 1..9999
     THEN DateTime(y, m, d, secs \div 3600, (secs % 3600) \div 60, secs % 60)
     ELSE NoDate

DateKeys == <<"published", "published_at", "publication_date", "posted", "posted_at",
              "date", "created", "created_at", "publish_date", "date_posted">>

\* the last resort of extract_job_date: the date in title and body
DateFromText(job) ==
  LET Found(d) == IF d # NoDate THEN Dt(d) ELSE Null
      Parsed(text) == IF text.t = "raise" THEN text ELSE Found(parse_date_flexible(text.v))
  IN Parsed(JoinFiltered(<<GetD(job, "title", Str(<<>>)), GetD(job, "body", Str(<<>>))>>))

RECURSIVE ProbeDateKeys(_, _)
ProbeDateKeys(job, i) ==
  IF i > Len(DateKeys) THEN DateFromText(job)
  ELSE LET Found(d) == IF d # NoDate THEN Dt(d) ELSE ProbeDateKeys(job, i + 1)
           Value(v) == IF v.t = "str" THEN Found(parse_date_flexible(v.v))
                       ELSE IF v.t = "num" THEN Found(fromtimestamp(v.v))
                       ELSE ProbeDateKeys(job, i + 1)
       IN Value(Get(job, DateKeys[i]))

extract_job_date(job) == ProbeDateKeys(job, 1)

extract_company_name(job) ==
  LET comp == Or(Get(job, "company"), Obj(EmptyDict)) IN
  IF comp.t = "obj" THEN Or(GetD(comp.v, "name", Str(<<>>)), Str(<<>>))
  ELSE IF comp.t = "str" THEN comp
  ELSE Str(<<>>)

SalaryKeys == <<"salary", "salary_description", "salary_text", "remuneration",
                "salary_min", "salary_max">>

RECURSIVE ProbeSalaryKeys(_, _)
ProbeSalaryKeys(job, i) ==
  IF i > Len(SalaryKeys)
  THEN IF Get(job, "contract").t = "obj"
       THEN Str(str(GetD(job["contract"].v, "salary", Str(<<>>))))
       ELSE Str(<<>>)
  ELSE IF SalaryKeys[i] \in DOMAIN job /\ Truthy(job[SalaryKeys[i]])
       THEN Str(str(job[SalaryKeys[i]]))
       ELSE ProbeSalaryKeys(job, i + 1)

extract_salary(job) == ProbeSalaryKeys(job, 1)

extract_locations(job) ==
  LET locs == GetD(job, "locations", List(<<>>)) IN
  IF locs.t = "list"
  THEN LET nomes == [i \in 1..Len(locs.v) |->
                       IF locs.v[i].t = "obj" THEN GetD(locs.v[i].v, "name", Str(<<>>))
                       ELSE Str(str(locs.v[i]))]
            kept == SelectTruthy(nomes) IN
       IF \E i \in 1..Len(kept) : kept[i].t # "str" THEN Raise("TypeError")
       ELSE Str(Join(<<",", " ">>, [i \in 1..Len(kept) |-> kept[i].v]))
  ELSE Str(str(Or(locs, Str(<<>>))))

\* ------------------------------------------------------ job_type (TP1)
\* dados[k].lower() + " " when dados.get(k) is truthy; AttributeError when
\* the value has no lower()
LowerPart(dados, k) ==
  LET v == Get(dados, k) IN
  IF ~Truthy(v) THEN Str(<<>>)
  ELSE IF v.t = "str" THEN Str(lower(v.v) \o <<" ">>)
  ELSE Raise("AttributeError")

\* the text job_type searches
type_text(dados) ==
  LET a == LowerPart(dados, "title")
      b == LowerPart(dados, "body")
  IN IF a.t = "raise" THEN a
     ELSE IF b.t = "raise" THEN b
     ELSE Str(a.v \o b.v
              \o lower(json_dumps(GetD(dados, "contract", Str(<<>>))))
              \o lower(json_dumps(GetD(dados, "types", Str(<<>>))))
              \o lower(json_dumps(GetD(dados, "locations", Str(<<>>)))))

\* the chain of job_type with the on-site test first
classify_onsite_first(texto) ==
  IF Contains(texto, <<"p","r","e","s","e","n","c","i","a","l">>) \/ Contains(texto, <<"o","n","-","s","i","t","e">>) THEN <<"o","n","s","i","t","e">>
  ELSE IF Contains(texto, <<"r","e","m","o","t","e">>) \/ Contains(texto, <<"r","e","m","o","t","o">>) THEN <<"r","e","m","o","t","e">>
  ELSE IF Contains(texto, <<"h","í","b","r">>) \/ Contains(texto, <<"h","i","b","r">>) THEN <<"h","y","b","r","i","d">>
  ELSE <<"o","t","h","e","r">>

\* the if / elif chain of job_type
classify(texto) ==
  IF Contains(texto, <<"r","e","m","o","t","e">>) \/ Contains(texto, <<"r","e","m","o","t","o">>) THEN <<"r","e","m","o","t","e">>
  ELSE IF Contains(texto, <<"h","í","b","r">>) \/ Contains(texto, <<"h","i","b","r">>) THEN <<"h","y","b","r","i","d">>
  ELSE IF Contains(texto, <<"p","r","e","s","e","n","c","i","a","l">>) \/ Contains(texto, <<"o","n","-","s","i","t","e">>) THEN <<"o","n","s","i","t","e">>
  ELSE <<"o","t","h","e","r">>

\* -------------------------------------------------------- skills (TP1)
\* the patterns of skills_list, as the text each one matches
skills_list ==
  << <<"p","y","t","h","o","n">>, <<"r">>, <<"s","q","l">>, <<"d","o","c","k","e","r">>,
     <<"a","w","s">>, <<"g","i","t">>, <<"t","e","n","s","o","r","f","l","o","w">>,
     <<"p","a","n","d","a","s">>, <<"n","u","m","p","y">>,
     <<"j","a","v","a","s","c","r","i","p","t">>, <<"j","a","v","a">>, <<"c","#">>,
     <<"c","+","+">>, <<"s","c","a","l","a">>, <<"s","p","a","r","k">>,
     <<"r","e","a","c","t">>, <<"n","o","d","e">> >>

\* a \w character at position i
WordAt(text, i) ==
  /\ i >= 1 /\ i <= Len(text)
  /\ \/ IsDigit(text[i]) \/ text[i] = "_"
     \/ \E k \in 1..Len(Lower) : Lower[k] = text[i] \/ Upper[k] = text[i]

\* \b between positions i - 1 and i
Boundary(text, i) == WordAt(text, i - 1) # WordAt(text, i)

\* \b s \b matches at position i (re.IGNORECASE)
MatchAt(text, s, i) ==
  /\ i + Len(s) - 1 <= Len(text)
  /\ lower(SubSeq(text, i, i + Len(s) - 1)) = s
  /\ Boundary(text, i)
  /\ Boundary(text, i + Len(s))

\* len(re.findall(pattern, text)): non-overlapping matches, left to right
RECURSIVE FindAll(_, _, _)
FindAll(text, s, i) ==
  IF i > Len(text) THEN 0
  ELSE IF MatchAt(text, s, i) THEN 1 + FindAll(text, s, i + Len(s))
  ELSE FindAll(text, s, i + 1)

\* the text of a job the patterns are counted in
skills_text(job) ==
  LET joined == JoinFiltered(<<GetD(job, "title", Str(<<>>)), GetD(job, "body", Str(<<>>)),
                               extract_company_name(job)>>)
  IN IF joined.t = "raise" THEN joined ELSE Str(lower(joined.v))

\* the date test with the end of the range excluded
InRange_open_end(dt, di, df) == DtLeq(di, dt) /\ DtLess(dt, df)

\* the date test of the loop body: the job is counted
InRange(dt, di, df) == DtLeq(di, dt) /\ DtLeq(dt, df)

\* sorted(..., key = count, reverse = True): stable, descending
RECURSIVE InsertDesc(_, _)
InsertDesc(x, xs) ==
  IF xs = <<>> THEN <<x>>
  ELSE IF Head(xs).count >= x.count THEN <<Head(xs)>> \o InsertDesc(x, Tail(xs))
  ELSE <<x>> \o xs

RECURSIVE SortDesc(_)
SortDesc(xs) ==
  IF xs = <<>> THEN <<>>
  ELSE InsertDesc(xs[Len(xs)], SortDesc(SubSeq(xs, 1, Len(xs) - 1)))

\* ---------------------------------------------- employer resolver (TP2)
extract_company_name_2(job) ==
  LET comp == Get(job, "company") IN
  IF comp.t = "obj" THEN Or(GetD(comp.v, "name", Str(<<>>)), Str(<<>>))
  ELSE IF comp.t = "str" THEN comp
  ELSE Str(<<>>)

IsLowerAlnum(c) == IsDigit(c) \/ \E i \in 1..26 : Lower[i] = c

\* re.sub(r"\s+", " ", s)
RECURSIVE CollapseSpace(_)
CollapseSpace(s) ==
  IF s = <<>> THEN <<>>
  ELSE IF Head(s) \in Whitespace
       THEN <<" ">> \o CollapseSpace(LStrip(s))
       ELSE <<Head(s)>> \o CollapseSpace(Tail(s))

normalize_text(s) == SelectSeq(CollapseSpace(strip(lower(s))), LAMBDA c : IsLowerAlnum(c) \/ c = " ")

\* re.sub(r"[^a-z0-9]+", "-", s)
RECURSIVE Hyphenate(_)
Hyphenate(s) ==
  IF s = <<>> THEN <<>>
  ELSE IF IsLowerAlnum(Head(s)) THEN <<Head(s)>> \o Hyphenate(Tail(s))
  ELSE IF Len(s) > 1 /\ ~IsLowerAlnum(s[2]) THEN Hyphenate(Tail(s))
  ELSE <<"-">> \o Hyphenate(Tail(s))

RECURSIVE StripHyphen(_)
StripHyphen(s) ==
  IF s # <<>> /\ Head(s) = "-" THEN StripHyphen(Tail(s))
  ELSE IF s # <<>> /\ s[Len(s)] = "-" THEN StripHyphen(SubSeq(s, 1, Len(s) - 1))
  ELSE s

slugify_company_name(s) ==
  StripHyphen(Hyphenate(SelectSeq(strip(lower(s)), LAMBDA c : c # "'")))

\* ------------------------------------------------------------ CSV export
RECURSIVE Pad(_, _)
Pad(s, w) == IF Len(s) >= w THEN s ELSE Pad(<<"0">> \o s, w)

\* datetime.isoformat()
isoformat(d) ==
  Pad(NatText(d.y), 4) \o <<"-">> \o Pad(NatText(d.mo), 2) \o <<"-">> \o Pad(NatText(d.d), 2)
    \o <<"T">> \o Pad(NatText(d.h), 2) \o <<":">> \o Pad(NatText(d.mi), 2)
    \o <<":">> \o Pad(NatText(d.sec), 2)

\* the text csv.writer writes for a value
CsvCell(v) == IF v.t = "null" THEN <<>> ELSE str(v)

\* the row jobs_to_csv writes for a job, or the exception of an extractor
csv_row(job) ==
  LET Row(dt, loc) ==
        IF dt.t = "raise" THEN dt
        ELSE IF loc.t = "raise" THEN loc
        ELSE [t |-> "row",
              v |-> << CsvCell(GetD(job, "title", Str(<<>>))),
                       CsvCell(extract_company_name(job)),
                       CsvCell(Or(Or(GetD(job, "body", Str(<<>>)), GetD(job, "description", Str(<<>>))),
                                  Str(<<>>))),
                       IF dt.t = "datetime" THEN isoformat(dt.v) ELSE <<>>,
                       extract_salary(job).v,
                       loc.v >>]
  IN Row(extract_job_date(job), extract_locations(job))

\* the rows written before the loop ends or an extractor raises
RECURSIVE CsvRows(_, _)
CsvRows(jobs, i) ==
  IF i > Len(jobs) THEN [rows |-> <<>>, exc |-> ""]
  ELSE LET Cons(r, rest) == [rows |-> <<r.v>> \o rest.rows, exc |-> rest.exc]
           Rows(r) == IF r.t = "raise" THEN [rows |-> <<>>, exc |-> r.v]
                      ELSE Cons(r, CsvRows(jobs, i + 1))
       IN Rows(csv_row(jobs[i].v))

jobs_to_csv(jobs, path) == [path |-> path, rows |-> CsvRows(jobs, 1).rows]

\* ---------------------------------------------------------------- state
VARIABLES
  cmd,          \* the command of this invocation
  args,         \* its arguments
  API_KEY,      \* the configured credential
  upstream,     \* the pages the listings service holds for /job/list.json
  pc,           \* position: "start", a loop or fetch label, "done", "exit1", "error"
  err,          \* the exception that ended the command
  requests,     \* the network requests issued so far
  stdout,       \* what was printed
  files,        \* the CSV files written
  job,          \* the record of get.json
  company,      \* get jobID: the extracted company name
  company_url,  \* get jobID: the resolved review-site page
  profile,      \* get jobID: the scraped attributes before the benefits
  di,           \* skills: start of the range
  df,           \* skills: end of the range
  page,         \* skills, statistics zone: the page counter
  counts,       \* skills: the count of each pattern of skills_list
  all_jobs,     \* statistics zone: the records fetched
  idx,          \* statistics zone: the next record to tally
  stats,        \* statistics zone: the (zone, type) tallies
  todos,        \* skills: the page fetched last
  resp          \* the response to the last fetch of a review-site page

vars == <<cmd, args, API_KEY, upstream, pc, err, requests, stdout, files, job, company,
          company_url, profile, di, df, page, counts, all_jobs, idx, stats, todos, resp>>

PLACEHOLDER == "AQUI_A_TUA_API_KEY"

\* the test of api_get without the placeholder
KeyMissing_empty_only == API_KEY = ""

\* the test of api_get before the request
KeyMissing == API_KEY = "" \/ API_KEY = PLACEHOLDER

\* a request to the listings service, and a page fetch of the review site
Req(site, path, n) == [site |-> site, path |-> path, n |-> n, url |-> <<>>]

Fetch(kind, url) == [site |-> "teamlyzer", path |-> kind, n |-> 0, url |-> url]

Text(s) == [fmt |-> "text", v |-> s]

Json(x) == [fmt |-> "json", v |-> x]

\* an exception reaches the command boundary
Fail(e) == pc' = "error" /\ err' = e

\* the outcomes of requests.get + raise_for_status + json() that raise
ApiFailures == {Raise("Timeout"), Raise("HTTPError")}

\* ---------------------------------------------------------- sample jobs
Company(name) == Obj([id |-> Num(7), name |-> Str(name)])

Loc(name) == Obj([id |-> Num(1), name |-> Str(name)])

Type(id, name) == Obj([id |-> Num(id), name |-> Str(name)])

JobA == [title |-> Str(<<"P","y","t","h","o","n"," ","D","e","v">>), body |-> Str(<<"p","y","t","h","o","n"," ","e"," ","s","q","l">>),
         company |-> Company(<<"A","c","m","e">>), published |-> Str(<<"2","0","2","3","-","0","1","-","0","1">>),
         locations |-> List(<<Loc(<<"L","i","s","b","o","a">>), Loc(<<"P","o","r","t","o">>)>>),
         types |-> List(<<Type(2, <<"P","a","r","t","-","t","i","m","e">>)>>), salary |-> Num(1500)]

JobB == [title |-> Str(<<"J","a","v","a">>), body |-> Str(<<"j","a","v","a","s","c","r","i","p","t","i","n","g"," ","j","a","v","a">>),
         company |-> Str(<<"B","e","t","a"," ","L","d","a">>), date |-> Str(<<"2","0","2","3","-","0","6","-","0","1">>),
         locations |-> List(<<Loc(<<"L","i","s","b","o","a">>)>>),
         types |-> List(<<Type(1, <<"F","u","l","l","-","t","i","m","e">>), Type(2, <<"P","a","r","t","-","t","i","m","e">>)>>)]

JobC == [title |-> Str(<<"p","y","t","h","o","n">>), published |-> Str(<<"2","0","2","3","-","1","2","-","0","1">>),
         company |-> Company(<<"A","c","m","e"," ","P","o","r","t","o">>), locations |-> List(<<Loc(<<"P","o","r","t","o">>)>>),
         types |-> List(<<Type(1, <<"F","u","l","l","-","t","i","m","e">>)>>)]

\* a numeric title and no date
JobBadTitle == [title |-> Num(5), company |-> Company(<<"A","c","m","e">>),
                locations |-> List(<<Loc(<<"L","i","s","b","o","a">>)>>), types |-> List(<<Type(2, <<"P","a","r","t","-","t","i","m","e">>)>>)]

\* a numeric location name
JobBadLoc == [title |-> Str(<<"D","e","v">>), published |-> Str(<<"2","0","2","3","-","0","6","-","0","1">>), company |-> Company(<<"A","c","m","e">>),
              locations |-> List(<<Obj([name |-> Num(5)])>>), types |-> List(<<Type(2, <<"P","a","r","t","-","t","i","m","e">>)>>)]

\* ------------------------------------------------------------ top (TP1)
TopResponses ==
  { Obj([results |-> List(<<Obj(JobA), Obj(JobB)>>)]),
    Obj([results |-> List(<<>>)]),
    Obj([results |-> Obj([results |-> List(<<Obj(JobC)>>)])]),
    Obj([name |-> Str(<<"e","r","r","o">>)]),
    Obj([results |-> List(<<Obj(JobA), Obj(JobBadTitle)>>)]),
    Obj([results |-> List(<<Obj(JobBadLoc)>>)]) }

\* resultados of top
top_results(dados) ==
  LET r == GetD(dados.v, "results", dados) IN
  IF r.t = "obj" THEN Or(GetD(r.v, "results", List(<<>>)), List(<<>>)) ELSE r

top_path == IF Len(args.csv_path) > 0 THEN args.csv_path
            ELSE <<"t","o","p","_">> \o IntText(args.n) \o <<".","c","s","v">>

Saved(path) == Text(<<"C","S","V"," ","g","u","a","r","d","a","d","o"," ","e","m",":"," ">> \o path)

TopRun ==
  /\ cmd = "top" /\ pc = "start"
  /\ UNCHANGED <<cmd, args, API_KEY, upstream, resp, job, company, company_url, profile, di, df,
                 page, counts, all_jobs, idx, stats, todos>>
  /\ IF KeyMissing
     THEN Fail("RuntimeError") /\ UNCHANGED <<requests, stdout, files>>
     ELSE /\ requests' = Append(requests, Req("itjobs", "/job/list.json", args.n))
          /\ \E dados \in ApiFailures \cup TopResponses :
               IF dados.t = "raise"
               THEN Fail(dados.v) /\ UNCHANGED <<stdout, files>>
               ELSE LET Output(resultados, exc) ==
                          IF ~args.csv
                          THEN /\ stdout' = Append(stdout, Json(resultados))
                               /\ pc' = "done" /\ UNCHANGED <<err, files>>
                          ELSE /\ files' = files \cup {jobs_to_csv(resultados.v, top_path)}
                               /\ IF exc # ""
                                  THEN /\ stdout' = Append(stdout, Json(resultados))
                                       /\ Fail(exc)
                                  ELSE /\ stdout' = stdout \o <<Json(resultados), Saved(top_path)>>
                                       /\ pc' = "done" /\ UNCHANGED err
                    IN Output(top_results(dados), CsvRows(top_results(dados).v, 1).exc)

\* --------------------------------------------------------- search (TP1)
SearchResponses ==
  { Obj([results |-> List(<<Obj(JobA), Obj(JobB), Obj(JobC)>>)]),
    Obj([results |-> List(<<Obj(JobB), Obj(JobA)>>)]),
    Obj([results |-> List(<<Obj(JobBadLoc), Obj(JobA)>>)]),
    Obj([name |-> Str(<<"e","r","r","o">>)]) }

\* {str(t["id"]) for t in job.get("types", [])} holds "2"; KeyError when
\* a type has no id
HasPartTime(j) ==
  LET ts == Get(j, "types") IN
  IF ~Truthy(ts) THEN Str(<<>>)
  ELSE IF \E i \in 1..Len(ts.v) : ts.v[i].t # "obj" THEN Raise("TypeError")
  ELSE IF \E i \in 1..Len(ts.v) : "id" \notin DOMAIN ts.v[i].v THEN Raise("KeyError")
  ELSE IF \E i \in 1..Len(ts.v) : str(ts.v[i].v["id"]) = <<"2">> THEN Str(<<"2">>)
  ELSE Str(<<>>)

\* " ".join(l.get("name", "").lower() for l in job.get("locations", []))
search_locais(j) ==
  LET ls == Get(j, "locations") IN
  IF ~Truthy(ls) THEN Str(<<>>)
  ELSE IF \E i \in 1..Len(ls.v) :
            ls.v[i].t # "obj" \/ GetD(ls.v[i].v, "name", Str(<<>>)).t # "str"
       THEN Raise("AttributeError")
       ELSE Str(Join(<<" ">>, [i \in 1..Len(ls.v) |-> lower(GetD(ls.v[i].v, "name", Str(<<>>)).v)]))

\* the loop of search from record i on, with the matches kept so far
RECURSIVE search_filter(_, _, _, _, _, _)
search_filter(lista, i, acc, loc, emp, n) ==
  IF i > Len(lista) THEN List(acc)
  ELSE LET j == lista[i].v
           pt == HasPartTime(j)
       IN IF pt.t = "raise" THEN pt
          ELSE IF pt.v = <<>> THEN search_filter(lista, i + 1, acc, loc, emp, n)
          ELSE IF extract_company_name(j).t # "str" THEN Raise("AttributeError")
          ELSE IF search_locais(j).t = "raise" THEN search_locais(j)
          ELSE IF Contains(lower(extract_company_name(j).v), emp) /\ Contains(search_locais(j).v, loc)
               THEN IF Len(acc) + 1 >= n THEN List(Append(acc, lista[i]))
                    ELSE search_filter(lista, i + 1, Append(acc, lista[i]), loc, emp, n)
               ELSE search_filter(lista, i + 1, acc, loc, emp, n)

search_path == IF Len(args.csv_path) > 0 THEN args.csv_path
               ELSE LET s == <<"s","e","a","r","c","h","_">> \o args.empresa \o <<"_">> \o args.localidade \o <<".","c","s","v">>
                    IN [i \in 1..Len(s) |-> IF s[i] = " " THEN "_" ELSE s[i]]

SearchRun ==
  /\ cmd = "search" /\ pc = "start"
  /\ UNCHANGED <<cmd, args, API_KEY, upstream, resp, job, company, company_url, profile, di, df,
                 page, counts, all_jobs, idx, stats, todos>>
  /\ IF KeyMissing
     THEN Fail("RuntimeError") /\ UNCHANGED <<requests, stdout, files>>
     ELSE /\ requests' = Append(requests, Req("itjobs", "/job/search.json", 100))
          /\ \E dados \in ApiFailures \cup SearchResponses :
               IF dados.t = "raise"
               THEN Fail(dados.v) /\ UNCHANGED <<stdout, files>>
               ELSE LET Output(filtrados, exc) ==
                          IF filtrados.t = "raise"
                          THEN Fail(filtrados.v) /\ UNCHANGED <<stdout, files>>
                          ELSE IF ~args.csv
                          THEN /\ stdout' = Append(stdout, Json(filtrados))
                               /\ pc' = "done" /\ UNCHANGED <<err, files>>
                          ELSE /\ files' = files \cup {jobs_to_csv(filtrados.v, search_path)}
                               /\ IF exc # ""
                                  THEN /\ stdout' = Append(stdout, Json(filtrados))
                                       /\ Fail(exc)
                                  ELSE /\ stdout' = stdout \o <<Json(filtrados), Saved(search_path)>>
                                       /\ pc' = "done" /\ UNCHANGED err
                        Filtered(lista) == search_filter(lista.v, 1, <<>>, lower(args.localidade),
                                                         lower(args.empresa), args.n)
                        Found(filtrados) == Output(filtrados, CsvRows(filtrados.v, 1).exc)
                    IN Found(Filtered(GetD(dados.v, "results", List(<<>>))))

\* ----------------------------------------------------------- type (TP1)
TypeJobs ==
  LET TypeTitles == {<<"D","e","v">>, <<"D","e","v"," ","R","e","m","o","t","e">>, <<"R","e","m","o","t","o"," ","o","u"," ","o","n","-","s","i","t","e">>, <<"M","o","d","e","l","o"," ","H","í","b","r","i","d","o">>,
                     <<"h","i","b","r","i","d","o"," ","e"," ","p","r","e","s","e","n","c","i","a","l">>, <<"P","r","e","s","e","n","c","i","a","l">>, <<"O","n","-","S","i","t","e"," ","L","i","s","b","o","a">>, <<"r","e","m","o","t","e"," ","h","í","b","r","i","d","o">>}
      TypeBodies == {<<>>, <<"t","r","a","b","a","l","h","o"," ","p","r","e","s","e","n","c","i","a","l">>, <<"r","e","g","i","m","e"," ","h","i","b","r","i","d","o">>}
      TypeLocations == {List(<<Loc(<<"L","i","s","b","o","a">>)>>), List(<<Loc(<<"R","e","m","o","t","e">>)>>), List(<<Loc(<<"H","í","b","r","i","d","o">>)>>)}
  IN
  {[title |-> Str(ti), body |-> Str(b), locations |-> l] :
      ti \in TypeTitles, b \in TypeBodies, l \in TypeLocations}
  \cup {[title |-> Str(ti), contract |-> Obj([type |-> Str(<<"O","n","-","s","i","t","e">>)]), types |-> List(<<Type(1, <<"R","e","m","o","t","o">>)>>)] :
          ti \in TypeTitles}
  \cup {[body |-> Str(b)] : b \in TypeBodies}
  \cup {JobBadTitle}

job_type ==
  /\ cmd = "type" /\ pc = "start"
  /\ UNCHANGED <<cmd, args, API_KEY, upstream, resp, files, company, company_url, profile, di, df,
                 page, counts, all_jobs, idx, stats, todos>>
  /\ IF KeyMissing
     THEN Fail("RuntimeError") /\ UNCHANGED <<requests, stdout, job>>
     ELSE /\ requests' = Append(requests, Req("itjobs", "/job/get.json", args.job_id))
          /\ \E dados \in ApiFailures \cup {Obj(j) : j \in TypeJobs} :
               IF dados.t = "raise"
               THEN Fail(dados.v) /\ UNCHANGED <<stdout, job>>
               ELSE /\ job' = dados.v
                    /\ IF type_text(dados.v).t = "raise"
                       THEN Fail(type_text(dados.v).v) /\ UNCHANGED stdout
                       ELSE /\ stdout' = Append(stdout, Text(classify(type_text(dados.v).v)))
                            /\ pc' = "done" /\ UNCHANGED err

\* --------------------------------------------------------- skills (TP1)
limit == 100

max_pages == 20

\* records of the listings service with the instant each one was published
\* (NoDate: the record carries no date)
SkillSamples ==
  << [job |-> JobA, when |-> DateTime(2023, 1, 1, 0, 0, 0)],
     [job |-> JobB, when |-> DateTime(2023, 6, 1, 0, 0, 0)],
     [job |-> JobC, when |-> DateTime(2023, 12, 1, 0, 0, 0)],
     [job |-> [title |-> Str(<<"R","e","a","c","t"," ","d","e","v">>), body |-> Str(<<"n","o","d","e"," ","e"," ","r","e","a","c","t">>)], when |-> NoDate],
     [job |-> [title |-> Str(<<"a","w","s"," ","g","i","t">>), posted_at |-> Str(<<"3","0","/","0","6","/","2","0","2","3">>)],
      when |-> DateTime(2023, 6, 30, 0, 0, 0)],
     [job |-> [title |-> Str(<<"d","o","c","k","e","r">>), published |-> Str(<<"2","0","2","3","-","0","6","-","3","0"," ","1","4",":","0","0",":","0","0">>)],
      when |-> DateTime(2023, 6, 30, 14, 0, 0)],
     [job |-> [title |-> Str(<<"S","p","a","r","k">>), published |-> Null, created_at |-> Num(1685577600)],
      when |-> DateTime(2023, 6, 1, 0, 0, 0)],
     [job |-> [title |-> Str(<<"n","u","m","p","y">>), body |-> Str(<<"p","u","b","l","i","c","a","d","o"," ","e","m"," ","2","0","2","2","-","1","2","-","3","1",","," ","p","a","n","d","a","s">>)],
      when |-> DateTime(2022, 12, 31, 0, 0, 0)],
     [job |-> [title |-> Str(<<"s","c","a","l","a">>), date |-> Str(<<"b","r","e","v","e","m","e","n","t","e">>)], when |-> NoDate],
     [job |-> JobBadTitle, when |-> NoDate] >>

\* a page of the service: runs of n equal records, in order
Run(j, n) == [j |-> j, n |-> n]

RECURSIVE PageLen(_)
PageLen(runs) == IF runs = <<>> THEN 0 ELSE Head(runs).n + PageLen(Tail(runs))

SkillPages ==
  { <<>>,
    <<Run(1, 1), Run(2, 1), Run(3, 1)>>,
    <<Run(2, 99)>>,
    <<Run(5, 1), Run(6, 1), Run(8, 1), Run(9, 1)>>,
    <<Run(1, 1), Run(10, 1)>>,
    <<Run(1, 1), Run(3, 99)>>,
    <<Run(5, 40), Run(6, 30), Run(4, 30)>>,
    <<Run(7, 100)>> }

SkillArgs ==
  { [data_inicial |-> <<"2","0","2","3","-","0","1","-","0","1">>, data_final |-> <<"2","0","2","3","-","0","6","-","3","0">>],
    [data_inicial |-> <<"0","1","/","0","1","/","2","0","2","3">>, data_final |-> <<"f","i","m"," ","2","0","2","3","-","0","6","-","3","0">>],
    [data_inicial |-> <<"2","0","2","3","-","0","6","-","0","1">>, data_final |-> <<"2","0","2","3","-","0","6","-","0","1">>],
    [data_inicial |-> <<"2","0","2","3","-","0","6","-","3","0">>, data_final |-> <<"2","0","2","3","-","0","1","-","0","1">>],
    [data_inicial |-> <<"o","n","t","e","m">>, data_final |-> <<"2","0","2","3","-","0","6","-","3","0">>],
    [data_inicial |-> <<"2","0","2","3","-","0","1","-","0","1">>, data_final |-> <<>>] }

\* the cap test off by one
cap_reached_late(p) == p > max_pages

\* the test that ends the loop of skills at the page cap
cap_reached(p) == p >= max_pages

ZeroCounts == [i \in 1..Len(skills_list) |-> 0]

\* the sequence <<F(1), ..., F(n)>>
RECURSIVE Tabulate(_, _)
Tabulate(F(_), n) == IF n = 0 THEN <<>> ELSE Append(Tabulate(F, n - 1), F(n))

\* what the loop body computes for each record of the service
SampleDate == Tabulate(LAMBDA s : extract_job_date(SkillSamples[s].job), Len(SkillSamples))

SampleText == Tabulate(LAMBDA s : skills_text(SkillSamples[s].job), Len(SkillSamples))

SampleMatches ==
  Tabulate(LAMBDA s : IF SampleText[s].t = "raise" THEN ZeroCounts
                      ELSE Tabulate(LAMBDA i : FindAll(SampleText[s].v, skills_list[i], 1), Len(skills_list)),
           Len(SkillSamples))

\* the loop body of skills over the runs of a page from run i on: the counts
\* after the page, or the exception of an extractor
RECURSIVE skills_fold(_, _, _, _, _)
skills_fold(cs, runs, i, a, b) ==
  IF i > Len(runs) THEN [t |-> "counts", v |-> cs]
  ELSE LET Body(dt, text, matches) ==
             IF dt.t = "raise" THEN dt
             ELSE IF dt.t = "null" THEN skills_fold(cs, runs, i + 1, a, b)
             ELSE IF ~InRange(dt.v, a, b) THEN skills_fold(cs, runs, i + 1, a, b)
             ELSE IF text.t = "raise" THEN text
             ELSE skills_fold([k \in 1..Len(cs) |-> cs[k] + runs[i].n * matches[k]],
                              runs, i + 1, a, b)
       IN Body(SampleDate[runs[i].j], SampleText[runs[i].j], SampleMatches[runs[i].j])

\* the sorted result skills prints
skills_result(cs) ==
  LET Dump(sorted) ==
        Json(List([i \in 1..Len(sorted) |-> Obj([skill |-> Str(sorted[i].skill), count |-> Num(sorted[i].count)])]))
  IN Dump(SortDesc([i \in 1..Len(cs) |-> [skill |-> skills_list[i], count |-> cs[i]]]))

MsgDates == <<"N","ã","o"," ","f","o","i"," ","p","o","s","s","í","v","e","l"," ","i","n","t","e","r","p","r","e","t","a","r"," ","a","s"," ","d","a","t","a","s","."," ","U","s","a"," ","p","o","r"," ","e","x","e","m","p","l","o"," ","Y","Y","Y","Y","-","M","M","-","D","D",".">>

MsgOrder == <<"d","a","t","a","F","i","n","a","l"," ","é"," ","a","n","t","e","r","i","o","r"," ","a"," ","d","a","t","a","I","n","i","c","i","a","l",".">>

\* the argument checks of skills
SkillsStart ==
  /\ cmd = "skills" /\ pc = "start"
  /\ UNCHANGED <<cmd, args, API_KEY, upstream, resp, err, requests, files, job, company, company_url,
                 profile, all_jobs, idx, stats, todos>>
  /\ LET Range(a, b) ==
           IF a = NoDate \/ b = NoDate
           THEN /\ stdout' = Append(stdout, Text(MsgDates))
                /\ pc' = "exit1" /\ UNCHANGED <<di, df, page, counts>>
           ELSE IF DtLess(b, a)
           THEN /\ stdout' = Append(stdout, Text(MsgOrder))
                /\ pc' = "exit1" /\ UNCHANGED <<di, df, page, counts>>
           ELSE /\ di' = a /\ df' = b
                /\ counts' = ZeroCounts /\ page' = 0
                /\ pc' = "loop" /\ UNCHANGED stdout
     IN Range(parse_date_flexible(args.data_inicial), parse_date_flexible(args.data_final))

\* one iteration of the while loop of skills
SkillsPage ==
  /\ cmd = "skills" /\ pc = "loop"
  /\ UNCHANGED <<cmd, args, API_KEY, upstream, resp, files, job, company, company_url, profile,
                 di, df, all_jobs, idx, stats>>
  /\ IF KeyMissing
     THEN Fail("RuntimeError") /\ UNCHANGED <<requests, stdout, page, counts, todos>>
     ELSE /\ requests' = Append(requests, Req("itjobs", "/job/search.json", page * limit))
          /\ \E dados \in ApiFailures \cup {[t |-> "page", v |-> p] : p \in SkillPages} :
               IF dados.t = "raise"
               THEN Fail(dados.v) /\ UNCHANGED <<stdout, page, counts, todos>>
               ELSE /\ todos' = dados.v
                    /\ IF dados.v = <<>>
                       THEN /\ stdout' = Append(stdout, skills_result(counts))
                            /\ pc' = "done" /\ UNCHANGED <<err, page, counts>>
                       ELSE LET Counted(r) ==
                                  IF r.t = "raise"
                                  THEN Fail(r.v) /\ UNCHANGED <<stdout, page, counts>>
                                  ELSE /\ counts' = r.v
                                       /\ IF PageLen(dados.v) < limit
                                          THEN /\ stdout' = Append(stdout, skills_result(r.v))
                                               /\ pc' = "done" /\ UNCHANGED <<err, page>>
                                          ELSE /\ page' = page + 1
                                               /\ IF cap_reached(page + 1)
                                                  THEN /\ stdout' = Append(stdout, skills_result(r.v))
                                                       /\ pc' = "done" /\ UNCHANGED err
                                                  ELSE UNCHANGED <<pc, err, stdout>>
                            IN Counted(skills_fold(counts, dados.v, 1, di, df))

\* ------------------------------------------------- review site pages (TP2)
\* a parsed page: its anchors, the text of the elements a selector finds,
\* the benefit items and the tag elements
Doc(anchors, sel, items, tags) ==
  [empty |-> FALSE, anchors |-> anchors, sel |-> sel, items |-> items, tags |-> tags]

EmptyBody == [empty |-> TRUE, anchors |-> <<>>, sel |-> EmptyDict, items |-> <<>>, tags |-> <<>>]

\* what requests.get of a page does: an exception, or a status and a body
Response(exc, status, body) == [exc |-> exc, status |-> status, body |-> body]

\* safe_get accepting every status below 400
safe_get_any_status(r) ==
  IF r.exc THEN Null
  ELSE IF r.status < 400 THEN [t |-> "html", v |-> r.body]
  ELSE Null

\* the text of the page, or None
safe_get(r) ==
  IF r.exc THEN Null
  ELSE IF r.status = 200 THEN [t |-> "html", v |-> r.body]
  ELSE Null

\* bool(html)
HasHtml(html) == html.t = "html" /\ ~html.v.empty

\* the anchors loop of find_company_url_in_ranking from anchor i on
RECURSIVE ranking_match(_, _, _)
ranking_match(anchors, target, i) ==
  IF i > Len(anchors) THEN Null
  ELSE LET href == anchors[i].href
           txt == strip(anchors[i].text)
       IN IF /\ Contains(href, <<"/","c","o","m","p","a","n","i","e","s","/">>) /\ Len(txt) > 0
             /\ Len(target) > 0 /\ Contains(normalize_text(txt), target)
          THEN IF Len(href) >= 4 /\ SubSeq(href, 1, 4) = <<"h","t","t","p">> THEN Str(href)
               ELSE Str(<<"h","t","t","p","s",":","/","/","p","t",".","t","e","a","m","l","y","z","e","r",".","c","o","m">> \o href)
          ELSE ranking_match(anchors, target, i + 1)

\* find_company_url_in_ranking after its fetch
find_company_url_in_ranking(company_name, html) ==
  IF ~HasHtml(html) THEN Null
  ELSE IF company_name.t # "str" THEN Raise("AttributeError")
  ELSE ranking_match(html.v.anchors, normalize_text(company_name.v), 1)

\* pick_text of scrape_teamlyzer_company
RECURSIVE pick_text(_, _)
pick_text(doc, selectors) ==
  IF selectors = <<>> THEN <<>>
  ELSE IF Head(selectors) \in DOMAIN doc.sel /\ Len(strip(doc.sel[Head(selectors)])) > 0
       THEN strip(doc.sel[Head(selectors)])
       ELSE pick_text(doc, Tail(selectors))

\* str.rstrip("/")
RECURSIVE rstrip_slash(_)
rstrip_slash(s) ==
  IF s # <<>> /\ s[Len(s)] = "/" THEN rstrip_slash(SubSeq(s, 1, Len(s) - 1)) ELSE s

benefits_url(url) == rstrip_slash(url) \o <<"/","b","e","n","e","f","i","t","s","-","a","n","d","-","v","a","l","u","e","s">>

\* benefits_text of scrape_teamlyzer_company
benefits_text(html) ==
  IF ~HasHtml(html) THEN <<>>
  ELSE LET items == SelectSeq([i \in 1..Len(html.v.items) |-> strip(html.v.items[i])],
                              LAMBDA x : Len(x) > 0)
       IN Join(<<",", " ">>, SubSeq(items, 1, IF Len(items) < 30 THEN Len(items) ELSE 30))

\* the attributes read from the company page
company_profile(url, doc) ==
  [teamlyzer_company_url |-> Str(url),
   teamlyzer_rating |-> Str(pick_text(doc, <<".rating-value", ".rating .value", ".rating">>)),
   teamlyzer_description |-> Str(pick_text(doc, <<".company-description", ".description",
                                                  ".company__description">>)),
   teamlyzer_salary |-> Str(pick_text(doc, <<".salary-average", ".salary", ".average-salary">>))]

\* dict.update
Update(d, e) == [k \in DOMAIN d \cup DOMAIN e |-> IF k \in DOMAIN e THEN e[k] ELSE d[k]]

\* the rows write_kv_csv writes, by key
write_kv_csv(filename, obj) ==
  [path |-> filename,
   rows |-> [k \in DOMAIN obj |->
               IF obj[k].t \in {"obj", "list"} THEN JsonDump(obj[k], FALSE) ELSE CsvCell(obj[k])]]

\* ------------------------------------------------------ get jobID (TP2)
GetJobs ==
  { JobA, JobB, JobC,
    [title |-> Str(<<"D","e","v">>), company |-> Company(<<"O","'","N","e","i","l"," ","&"," ","C","o">>)],
    [title |-> Str(<<"D","e","v">>), company |-> Str(<<"®">>)],
    [title |-> Str(<<"D","e","v">>)],
    [title |-> Str(<<"D","e","v">>), company |-> Null],
    [title |-> Str(<<"D","e","v">>), company |-> Obj([id |-> Num(7)])],
    [title |-> Str(<<"D","e","v">>), company |-> Obj([id |-> Num(7), name |-> Num(5)])] }

Anchor(href, text) == [href |-> href, text |-> text]

RankingDoc ==
  Doc(<< Anchor(<<"/","a","b","o","u","t">>, <<"A","c","m","e">>),
         Anchor(<<"/","c","o","m","p","a","n","i","e","s","/","b","e","t","a">>, <<>>),
         Anchor(<<"/","c","o","m","p","a","n","i","e","s","/","a","c","m","e","-","s","a">>, <<" ","A","C","M","E",","," ","S",".","A","."," ">>),
         Anchor(<<"h","t","t","p","s",":","/","/","p","t",".","t","e","a","m","l","y","z","e","r",".","c","o","m","/","c","o","m","p","a","n","i","e","s","/","a","c","m","e","-","p","o","r","t","o">>, <<"A","c","m","e"," ","P","o","r","t","o">>) >>,
      EmptyDict, <<>>, <<>>)

CompanyDoc ==
  Doc(<<>>, (".rating" :> <<" ","4",".","2"," ">> @@ ".rating-value" :> <<>> @@ ".description" :> <<"S","o","f","t","w","a","r","e"," ","h","o","u","s","e">>),
      <<>>, <<>>)

OtherDoc == Doc(<<>>, EmptyDict, <<>>, <<>>)

\* what a fetch of a page holding doc can bring
Responses(doc) ==
  { Response(TRUE, 0, EmptyBody),
    Response(FALSE, 200, doc),
    Response(FALSE, 200, EmptyBody),
    Response(FALSE, 204, EmptyBody),
    Response(FALSE, 202, doc),
    Response(FALSE, 404, OtherDoc),
    Response(FALSE, 500, OtherDoc) }

\* print the record and export it: the end of get_job
GetFinish(j) ==
  /\ job' = j
  /\ stdout' = Append(stdout, Json(Obj(j)))
  /\ files' = IF args.csv_out
              THEN files \cup {write_kv_csv(<<"j","o","b","_">> \o IntText(args.job_id) \o <<".","c","s","v">>, j)}
              ELSE files
  /\ pc' = "done"
  /\ UNCHANGED err

\* get_job up to the first fetch of the review site
get_job ==
  /\ cmd = "get" /\ pc = "start"
  /\ UNCHANGED <<cmd, args, API_KEY, upstream, resp, company_url, profile, di, df, page, counts,
                 all_jobs, idx, stats, todos>>
  /\ IF KeyMissing
     THEN Fail("RuntimeError") /\ UNCHANGED <<requests, stdout, files, job, company>>
     ELSE /\ requests' = Append(requests, Req("itjobs", "/job/get.json", args.job_id))
          /\ \E dados \in ApiFailures \cup {Obj(j) : j \in GetJobs} :
               IF dados.t = "raise"
               THEN Fail(dados.v) /\ UNCHANGED <<stdout, files, job, company>>
               ELSE /\ company' = extract_company_name_2(dados.v)
                    /\ IF Truthy(extract_company_name_2(dados.v))
                       THEN /\ job' = dados.v
                            /\ pc' = "ranking" /\ UNCHANGED <<err, stdout, files>>
                       ELSE GetFinish(dados.v)

\* get_teamlyzer_company_url: the ranking fetch and what follows it up to
\* the next fetch
GetRanking ==
  /\ cmd = "get" /\ pc = "ranking"
  /\ UNCHANGED <<cmd, args, API_KEY, upstream, company, profile, di, df, page, counts,
                 all_jobs, idx, stats, todos>>
  /\ requests' = Append(requests, Fetch("ranking", <<"h","t","t","p","s",":","/","/","p","t",".","t","e","a","m","l","y","z","e","r",".","c","o","m","/","c","o","m","p","a","n","i","e","s","/","r","a","n","k","i","n","g">>))
  /\ \E r \in Responses(RankingDoc) :
       LET url == find_company_url_in_ranking(company, safe_get(r)) IN
       /\ resp' = r
       /\ IF url.t = "raise"
          THEN Fail(url.v) /\ UNCHANGED <<stdout, files, job, company_url>>
          ELSE IF Truthy(url)
          THEN /\ company_url' = url
               /\ pc' = "company" /\ UNCHANGED <<err, stdout, files, job>>
          ELSE IF company.t # "str"
          THEN Fail("AttributeError") /\ UNCHANGED <<stdout, files, job, company_url>>
          ELSE IF slugify_company_name(company.v) = <<>>
          THEN GetFinish(job) /\ UNCHANGED company_url
          ELSE /\ pc' = "slug" /\ UNCHANGED <<err, stdout, files, job, company_url>>

candidate == <<"h","t","t","p","s",":","/","/","p","t",".","t","e","a","m","l","y","z","e","r",".","c","o","m","/","c","o","m","p","a","n","i","e","s","/">> \o slugify_company_name(company.v)

\* get_teamlyzer_company_url: the fetch of the guessed page
GetSlug ==
  /\ cmd = "get" /\ pc = "slug"
  /\ UNCHANGED <<cmd, args, API_KEY, upstream, company, profile, di, df, page, counts,
                 all_jobs, idx, stats, todos>>
  /\ requests' = Append(requests, Fetch("slug", candidate))
  /\ \E r \in Responses(CompanyDoc) :
       /\ resp' = r
       /\ IF HasHtml(safe_get(r))
          THEN /\ company_url' = Str(candidate)
               /\ pc' = "company" /\ UNCHANGED <<err, stdout, files, job>>
          ELSE GetFinish(job) /\ UNCHANGED company_url

\* scrape_teamlyzer_company: the fetch of the company page
GetCompany ==
  /\ cmd = "get" /\ pc = "company"
  /\ UNCHANGED <<cmd, args, API_KEY, upstream, company, company_url, di, df, page, counts,
                 all_jobs, idx, stats, todos>>
  /\ requests' = Append(requests, Fetch("company", company_url.v))
  /\ \E r \in Responses(CompanyDoc) :
       /\ resp' = r
       /\ IF HasHtml(safe_get(r))
          THEN /\ profile' = company_profile(company_url.v, safe_get(r).v)
               /\ pc' = "benefits" /\ UNCHANGED <<err, stdout, files, job>>
          ELSE GetFinish(Update(job, EmptyDict)) /\ UNCHANGED profile

\* scrape_teamlyzer_company: the fetch of the benefits page, then the end
\* of get_job
GetBenefits ==
  /\ cmd = "get" /\ pc = "benefits"
  /\ UNCHANGED <<cmd, args, API_KEY, upstream, company, company_url, profile, di, df, page,
                 counts, all_jobs, idx, stats, todos>>
  /\ requests' = Append(requests, Fetch("benefits", benefits_url(company_url.v)))
  /\ \E r \in Responses(Doc(<<>>, EmptyDict, <<<<"S","e","g","u","r","o">>, <<" ">>, <<"R","e","m","o","t","o">>>>, <<>>)) :
       /\ resp' = r
       /\ GetFinish(Update(job, Update(profile,
                      [teamlyzer_benefits |-> Str(benefits_text(safe_get(r)))])))

\* ---------------------------------------------------- list skills (TP2)
\* the text of a tag element as list_skills counts it
tag_text(s) == strip(CollapseSpace(lower(strip(s))))

RECURSIVE tag_counts(_, _, _)
tag_counts(tags, i, cs) ==
  IF i > Len(tags) THEN cs
  ELSE LET s == tag_text(tags[i])
           bumped == IF \E k \in 1..Len(cs) : cs[k].skill = s
                     THEN [k \in 1..Len(cs) |-> IF cs[k].skill = s THEN [cs[k] EXCEPT !.count = @ + 1] ELSE cs[k]]
                     ELSE Append(cs, [skill |-> s, count |-> 1])
       IN IF Len(s) > 0 THEN tag_counts(tags, i + 1, bumped)
          ELSE tag_counts(tags, i + 1, cs)

top10(tags) ==
  LET sorted == SortDesc(tag_counts(tags, 1, <<>>)) IN
  SubSeq(sorted, 1, IF Len(sorted) < 10 THEN Len(sorted) ELSE 10)

\* str.replace(" ", "%20")
RECURSIVE Percent20(_)
Percent20(s) ==
  IF s = <<>> THEN <<>>
  ELSE (IF Head(s) = " " THEN <<"%","2","0">> ELSE <<Head(s)>>) \o Percent20(Tail(s))

jobs_url(position) ==
  <<"h","t","t","p","s",":","/","/","p","t",".","t","e","a","m","l","y","z","e","r",".","c","o","m","/","c","o","m","p","a","n","i","e","s","/","j","o","b","s","?","t","a","g","s","=">> \o Percent20(strip(position))
    \o <<"&","o","r","d","e","r","=","m","o","s","t","_","r","e","l","e","v","a","n","t">>

TagsDocs ==
  { Doc(<<>>, EmptyDict, <<>>, <<<<"P","y","t","h","o","n">>, <<"S","Q","L">>, <<" ","p","y","t","h","o","n"," ">>, <<>>, <<"D","a","t","a"," "," ","S","c","i","e","n","c","e">>, <<"s","q","l">>, <<"P","Y","T","H","O","N">>>>),
    Doc(<<>>, EmptyDict, <<>>, <<>>),
    Doc(<<>>, EmptyDict, <<>>,
        <<<<"a">>, <<"b">>, <<"c">>, <<"d">>, <<"e">>, <<"f">>, <<"g">>, <<"h">>, <<"i">>, <<"j">>, <<"k">>, <<"k">>, <<"l">>>>) }

AsJson(rows) ==
  List([i \in 1..Len(rows) |-> Obj([skill |-> Str(rows[i].skill), count |-> Num(rows[i].count)])])

list_skills ==
  /\ cmd = "list" /\ pc = "start"
  /\ UNCHANGED <<cmd, args, API_KEY, upstream, job, company, company_url, profile, di, df,
                 page, counts, all_jobs, idx, stats, todos>>
  /\ requests' = Append(requests, Fetch("jobs", jobs_url(args.position)))
  /\ \E doc \in TagsDocs : \E r \in Responses(doc) :
       /\ resp' = r
       /\ IF ~HasHtml(safe_get(r))
          THEN Fail("RuntimeError") /\ UNCHANGED <<stdout, files>>
          ELSE /\ pc' = "done" /\ UNCHANGED err
               /\ IF args.csv_out
                  THEN /\ stdout' = stdout \o <<Json(AsJson(top10(safe_get(r).v.tags))), Text(args.out)>>
                       /\ files' = files \cup {[path |-> args.out, rows |-> top10(safe_get(r).v.tags)]}
                  ELSE /\ stdout' = Append(stdout, Json(AsJson(top10(safe_get(r).v.tags))))
                       /\ UNCHANGED files

\* ------------------------------------------------ statistics zone (TP2)
\* [x.get("name", "") for x in job.get(key, []) if isinstance(x, dict)];
\* TypeError when the value cannot be iterated
names_of(j, key) ==
  LET xs == GetD(j, key, List(<<>>)) IN
  IF xs.t \in {"null", "num"} THEN Raise("TypeError")
  ELSE IF xs.t # "list" THEN List(<<>>)
  ELSE LET ds == SelectSeq(xs.v, LAMBDA x : x.t = "obj") IN
       List([i \in 1..Len(ds) |-> GetD(ds[i].v, "name", Str(<<>>))])

\* zonas and tipos without the placeholder
OrPlaceholder_none(names) == names

\* zonas and tipos with the "" placeholder of an empty list
OrPlaceholder(names) == IF Len(names) = 0 THEN <<Str(<<>>)>> ELSE names

\* (z or "").strip(); AttributeError when z has no strip()
stripped(z) ==
  IF ~Truthy(z) THEN Str(<<>>)
  ELSE IF z.t = "str" THEN Str(strip(z.v))
  ELSE Raise("AttributeError")

\* stats[k] += 1 on a defaultdict(int)
Inc(st, k) ==
  [x \in DOMAIN st \cup {k} |-> IF x = k THEN (IF k \in DOMAIN st THEN st[k] + 1 ELSE 1) ELSE st[x]]

\* the inner loop: the types from position i on, for the zone z
RECURSIVE tally_types(_, _, _, _)
tally_types(st, z, tipos, i) ==
  IF i > Len(tipos) THEN [t |-> "stats", v |-> st]
  ELSE IF stripped(tipos[i]).t = "raise" THEN stripped(tipos[i])
  ELSE tally_types(Inc(st, <<z, stripped(tipos[i]).v>>), z, tipos, i + 1)

\* the outer loop: the zones from position i on
RECURSIVE tally_zones(_, _, _, _)
tally_zones(st, zonas, tipos, i) ==
  IF i > Len(zonas) THEN [t |-> "stats", v |-> st]
  ELSE IF stripped(zonas[i]).t = "raise" THEN stripped(zonas[i])
  ELSE LET r == tally_types(st, stripped(zonas[i]).v, tipos, 1) IN
       IF r.t = "raise" THEN r ELSE tally_zones(r.v, zonas, tipos, i + 1)

\* the body of the for loop of statistics_zone for one record
tally_job(st, j) ==
  LET zonas == names_of(j, "locations")
      tipos == names_of(j, "types")
  IN IF zonas.t = "raise" THEN zonas
     ELSE IF tipos.t = "raise" THEN tipos
     ELSE tally_zones(st, OrPlaceholder(zonas.v), OrPlaceholder(tipos.v), 1)

\* the characters of the model in code point order
CodeOrder ==
  <<"\t", " ", "%", "&", "'", ",", "-", ".", "/",
    "0", "1", "2", "3", "4", "5", "6", "7", "8", "9", ":", "=", "?">>
  \o SubSeq(Upper, 1, 26) \o <<"_">> \o SubSeq(Lower, 1, 26) \o <<"Í", "í">>

CharRank(c) == CHOOSE i \in 1..Len(CodeOrder) : CodeOrder[i] = c

\* a < b on str
RECURSIVE TextLess(_, _)
TextLess(a, b) ==
  IF b = <<>> THEN FALSE
  ELSE IF a = <<>> THEN TRUE
  ELSE IF Head(a) # Head(b) THEN CharRank(Head(a)) < CharRank(Head(b))
  ELSE TextLess(Tail(a), Tail(b))

\* the sort key (-count, zone, type) of a before that of b
RowBefore(st, a, b) ==
  \/ st[a] > st[b]
  \/ st[a] = st[b] /\ TextLess(a[1], b[1])
  \/ st[a] = st[b] /\ a[1] = b[1] /\ TextLess(a[2], b[2])

\* the rows of the CSV, sorted
RECURSIVE zone_rows(_, _)
zone_rows(st, keys) ==
  IF keys = {} THEN <<>>
  ELSE LET m == CHOOSE a \in keys : \A b \in keys \ {a} : RowBefore(st, a, b) IN
       <<[zona |-> m[1], tipo |-> m[2], vagas |-> st[m]]>> \o zone_rows(st, keys \ {m})

ZoneBatches ==
  { <<Obj(JobA), Obj(JobB)>>,
    <<Obj([title |-> Str(<<"D","e","v">>)]), Obj([locations |-> List(<<>>), types |-> List(<<Type(2, <<"P","a","r","t","-","t","i","m","e">>)>>)])>>,
    <<Obj([title |-> Str(<<"D","e","v">>), locations |-> List(<<Loc(<<"L","i","s","b","o","a">>), Loc(<<" ","L","i","s","b","o","a"," ">>)>>), types |-> List(<<Type(1, <<"F","u","l","l","-","t","i","m","e">>)>>)]),
      Obj([title |-> Str(<<"D","e","v">>), locations |-> List(<<Str(<<"B","r","a","g","a">>), Loc(<<"P","o","r","t","o">>), Obj([name |-> Null])>>), types |-> List(<<Obj([id |-> Num(1)]), Type(2, <<"P","a","r","t","-","t","i","m","e">>)>>)])>>,
    <<Obj(JobC), Obj([locations |-> Null, types |-> List(<<>>)])>>,
    <<Obj([locations |-> List(<<Obj([name |-> Num(5)])>>)])>>,
    <<Obj([locations |-> Str(<<"L","i","s","b","o","a">>), types |-> Obj([name |-> Str(<<"x">>)])])>> }

\* a listing: the pages the service holds, and the page it serves for
\* every later request (<<>>: none, the listing ends)
Listing(pages, more) == [pages |-> pages, more |-> more]

MaxShort == 2

MaxRequests == 22

ZoneListings ==
  {Listing(p, <<>>) : p \in UNION {[1..n -> ZoneBatches] : n \in 0..MaxShort}}
  \cup {Listing(<<>>, <<Obj(JobC)>>)}

\* one iteration of the while loop of iter_all_itjobs_jobs
ZonePage ==
  /\ cmd = "zone" /\ pc \in {"start", "paging"}
  /\ (IF pc = "start" THEN 1 ELSE page) <= MaxRequests
  /\ UNCHANGED <<cmd, args, API_KEY, upstream, resp, stdout, files, job, company, company_url,
                 profile, di, df, counts, stats, todos>>
  /\ IF KeyMissing
     THEN Fail("RuntimeError") /\ UNCHANGED <<requests, page, all_jobs, idx>>
     ELSE LET p == IF pc = "start" THEN 1 ELSE page IN
          /\ requests' = Append(requests, Req("itjobs", "/job/list.json", p))
          /\ \E data \in ApiFailures \cup {List(IF p <= Len(upstream.pages) THEN upstream.pages[p] ELSE upstream.more)} :
               IF data.t = "raise"
               THEN Fail(data.v) /\ UNCHANGED <<page, all_jobs, idx>>
               ELSE IF data.v = <<>>
               THEN /\ pc' = "fold" /\ idx' = 1
                    /\ page' = p /\ UNCHANGED <<err, all_jobs>>
               ELSE /\ all_jobs' = all_jobs \o data.v
                    /\ page' = p + 1
                    /\ pc' = "paging" /\ UNCHANGED <<err, idx>>

\* the for loop of statistics_zone: one record
ZoneFold ==
  /\ cmd = "zone" /\ pc = "fold" /\ idx <= Len(all_jobs)
  /\ UNCHANGED <<cmd, args, API_KEY, upstream, resp, requests, stdout, files, job, company,
                 company_url, profile, di, df, page, counts, all_jobs, todos>>
  /\ LET r == tally_job(stats, all_jobs[idx].v) IN
     IF r.t = "raise"
     THEN Fail(r.v) /\ UNCHANGED <<idx, stats>>
     ELSE /\ stats' = r.v
          /\ idx' = idx + 1
          /\ UNCHANGED <<pc, err>>

\* the CSV and the print that end statistics_zone
ZoneWrite ==
  /\ cmd = "zone" /\ pc = "fold" /\ idx > Len(all_jobs)
  /\ UNCHANGED <<cmd, args, API_KEY, upstream, resp, err, requests, job, company, company_url,
                 profile, di, df, page, counts, all_jobs, idx, stats, todos>>
  /\ files' = files \cup {[path |-> args.out, rows |-> zone_rows(stats, DOMAIN stats)]}
  /\ stdout' = Append(stdout, Text(args.out))
  /\ pc' = "done"

\* ------------------------------------------------------- the invocations
CsvArgs == {[csv |-> FALSE, csv_path |-> <<>>], [csv |-> TRUE, csv_path |-> <<>>],
            [csv |-> TRUE, csv_path |-> <<"o","u","t",".","c","s","v">>]}

Init ==
  /\ API_KEY \in {"8fb88b4abede1240132fd7c0d6b700c0", "", PLACEHOLDER}
  /\ pc = "start" /\ err = ""
  /\ requests = <<>> /\ stdout = <<>> /\ files = {}
  /\ job = EmptyDict /\ company = Null /\ company_url = Null /\ profile = EmptyDict
  /\ di = NoDate /\ df = NoDate /\ page = 0 /\ counts = ZeroCounts /\ todos = <<>>
  /\ all_jobs = <<>> /\ idx = 0 /\ stats = [k \in {} |-> 0]
  /\ resp = Response(FALSE, 0, EmptyBody)
  /\ \/ cmd = "top" /\ args \in {[n |-> n, csv |-> c.csv, csv_path |-> c.csv_path] : n \in {1, 5}, c \in CsvArgs} /\ upstream = Listing(<<>>, <<>>)
     \/ cmd = "search" /\ args \in {[localidade |-> l, empresa |-> e, n |-> n, csv |-> c.csv, csv_path |-> c.csv_path] :
                     l \in {<<"L","i","s","b","o","a">>, <<"p","o","r","t","o">>}, e \in {<<"a","c","m","e">>, <<"B","e","t","a"," ","L","d","a">>, <<>>}, n \in {1, 2}, c \in CsvArgs} /\ upstream = Listing(<<>>, <<>>)
     \/ cmd = "type" /\ args = [job_id |-> 42] /\ upstream = Listing(<<>>, <<>>)
     \/ cmd = "skills" /\ args \in SkillArgs /\ upstream = Listing(<<>>, <<>>)
     \/ cmd = "get" /\ args \in {[job_id |-> 42, csv_out |-> c] : c \in BOOLEAN} /\ upstream = Listing(<<>>, <<>>)
     \/ cmd = "zone" /\ args \in {[limit |-> 100, out |-> <<"s","t","a","t","i","s","t","i","c","s",".","c","s","v">>]} /\ upstream \in ZoneListings
     \/ cmd = "list" /\ args \in {[position |-> p, csv_out |-> c, out |-> <<"s","k","i","l","l","s",".","c","s","v">>] :
                     p \in {<<"d","a","t","a"," ","s","c","i","e","n","t","i","s","t">>, <<" ","p","y","t","h","o","n"," ">>}, c \in BOOLEAN} /\ upstream = Listing(<<>>, <<>>)

Next ==
  \/ TopRun
  \/ SearchRun
  \/ job_type
  \/ SkillsStart
  \/ SkillsPage
  \/ get_job
  \/ GetRanking
  \/ GetSlug
  \/ GetCompany
  \/ GetBenefits
  \/ ZonePage
  \/ ZoneFold
  \/ ZoneWrite
  \/ list_skills

Spec == Init /\ [][Next]_vars

\* ------------------------------------------------------------ properties
\* C1: type prints exactly one label, chosen by the first keyword set found
\* in the text in the order remote > hybrid > onsite > other: "remote"
\* whenever the text holds "remote" or "remoto", "hybrid" only without a
\* remote keyword, "onsite" only without remote and hybrid keywords, and
\* "other" when no keyword is there.
C1_TypePriority ==
  (cmd = "type" /\ pc = "done") =>
    LET texto == type_text(job).v
        hasRemote == Contains(texto, <<"r","e","m","o","t","e">>) \/ Contains(texto, <<"r","e","m","o","t","o">>)
        hasHybrid == Contains(texto, <<"h","í","b","r">>) \/ Contains(texto, <<"h","i","b","r">>)
        hasOnsite == Contains(texto, <<"p","r","e","s","e","n","c","i","a","l">>) \/ Contains(texto, <<"o","n","-","s","i","t","e">>)
    IN /\ Len(stdout) = 1
       /\ stdout[1].fmt = "text"
       /\ hasRemote => stdout[1].v = <<"r","e","m","o","t","e">>
       /\ (~hasRemote /\ hasHybrid) => stdout[1].v = <<"h","y","b","r","i","d">>
       /\ (~hasRemote /\ ~hasHybrid /\ hasOnsite) => stdout[1].v = <<"o","n","s","i","t","e">>
       /\ (~hasRemote /\ ~hasHybrid /\ ~hasOnsite) => stdout[1].v = <<"o","t","h","e","r">>

\* a posting with a remote and an on-site keyword was classified remote
C1_Witness ==
  /\ cmd = "type" /\ pc = "done"
  /\ Contains(type_text(job).v, <<"r","e","m","o","t","o">>)
  /\ Contains(type_text(job).v, <<"o","n","-","s","i","t","e">>)
  /\ Contains(type_text(job).v, <<"p","r","e","s","e","n","c","i","a","l">>)
  /\ stdout = <<Text(<<"r","e","m","o","t","e">>)>>

\* C2: a failed fetch of a review-site page (timeout, exception or
\* non-success status) is never fatal in get jobID and list skills: the
\* command does not end with an error.
C2_ReviewFetchNeverFatal ==
  ( /\ cmd \in {"get", "list"}
    /\ requests # <<>>
    /\ requests[Len(requests)].site = "teamlyzer"
    /\ (resp.exc \/ resp.status \notin 200..299) )
  => pc # "error"

\* C3: every paginated aggregation over the listings service (the loop of
\* skills and iter_all_itjobs_jobs of statistics zone) issues at most the
\* page cap of requests.
C3_PageCap ==
  cmd \in {"skills", "zone"} => Len(requests) <= 20

\* C4: skills requests the offsets 0, 100, 200, ... in order, each once,
\* at most 20 of them; it asks for a further page only after a page of 100
\* records, and prints one result.
C4_SkillsPaging ==
  cmd = "skills" =>
    /\ Len(requests) <= 20
    /\ \A i \in 1..Len(requests) :
         requests[i] = Req("itjobs", "/job/search.json", (i - 1) * 100)
    /\ pc = "loop" => Len(requests) < 20 /\ page = Len(requests)
    /\ (pc = "loop" /\ requests # <<>>) => PageLen(todos) >= 100
    /\ pc = "done" => Len(stdout) = 1 /\ stdout[1].fmt = "json"

\* the loop stopped at the cap, after 20 full pages
C4_Witness ==
  /\ cmd = "skills" /\ pc = "done"
  /\ Len(requests) = 20
  /\ requests[20].n = 1900
  /\ PageLen(todos) = 100

\* the record s was published inside [a, b], both ends included
PublishedWithin(s, a, b) ==
  LET w == SkillSamples[s].when IN
  /\ w # NoDate
  /\ ~TupleLess(DtKey(w), DtKey(a))
  /\ ~TupleLess(DtKey(b), DtKey(w))

\* the matches of pattern k in the records of the runs from i on that were
\* published inside [a, b]
RECURSIVE MatchesWithin(_, _, _, _, _)
MatchesWithin(runs, i, k, a, b) ==
  IF i > Len(runs) THEN 0
  ELSE (IF PublishedWithin(runs[i].j, a, b) THEN runs[i].n * SampleMatches[runs[i].j][k] ELSE 0)
       + MatchesWithin(runs, i + 1, k, a, b)

\* C5: a page of skills adds to the counts the matches of exactly the
\* records published at an instant d with start <= d <= end; a record
\* without a date or outside the range adds nothing.
C5_DateRangeFilter ==
  [][ (cmd = "skills" /\ pc = "loop" /\ pc' # "error") =>
        \A k \in 1..Len(skills_list) :
          counts'[k] = counts[k] + MatchesWithin(todos', 1, k, di, df) ]_vars

\* the records of 2023-01-01, 2023-06-01 and 2023-12-01 with the range
\* [2023-01-01, 2023-06-30]: the first two were counted, the third was not
C5_Witness ==
  /\ cmd = "skills" /\ pc = "done"
  /\ di = DateTime(2023, 1, 1, 0, 0, 0) /\ df = DateTime(2023, 6, 30, 0, 0, 0)
  /\ Len(requests) = 1
  /\ todos = <<Run(1, 1), Run(2, 1), Run(3, 1)>>
  /\ SampleMatches[3][1] = 1
  /\ counts[1] = 2 /\ counts[3] = 1 /\ counts[11] = 2
  /\ \A k \in 1..Len(counts) : counts[k] = SampleMatches[1][k] + SampleMatches[2][k]

\* the zones (key "locations") or types (key "types") of a record: its
\* objects in the list, or the one "" placeholder
EntryCount(j, key) ==
  LET xs == GetD(j, key, List(<<>>))
      n == IF xs.t = "list" THEN Cardinality({i \in 1..Len(xs.v) : xs.v[i].t = "obj"}) ELSE 0
  IN IF n = 0 THEN 1 ELSE n

PairCount(j) == EntryCount(j, "locations") * EntryCount(j, "types")

RECURSIVE TallySum(_, _)
TallySum(st, keys) ==
  IF keys = {} THEN 0
  ELSE LET k == CHOOSE x \in keys : TRUE IN st[k] + TallySum(st, keys \ {k})

RECURSIVE PairTotal(_, _)
PairTotal(jobs, n) == IF n = 0 THEN 0 ELSE PairTotal(jobs, n - 1) + PairCount(jobs[n].v)

\* C6: in statistics zone the tallies sum to the sum over the records
\* folded of (zones x types), an empty or absent list counting as one
\* placeholder; each record adds its zones x types, and no count decreases.
C6_TallyTotal ==
  /\ [](cmd = "zone" /\ pc \in {"fold", "done"} =>
          /\ TallySum(stats, DOMAIN stats) = PairTotal(all_jobs, idx - 1)
          /\ \A k \in DOMAIN stats : stats[k] >= 1)
  /\ [][ cmd = "zone" =>
           /\ \A k \in DOMAIN stats : k \in DOMAIN stats' /\ stats'[k] >= stats[k]
           /\ (pc = "fold" /\ idx' = idx + 1) =>
                TallySum(stats', DOMAIN stats') =
                  TallySum(stats, DOMAIN stats) + PairCount(all_jobs[idx].v) ]_vars

\* a record with 2 locations and 1 type was folded and added exactly 2
C6_Witness ==
  /\ cmd = "zone" /\ pc = "fold" /\ idx = 2
  /\ all_jobs[1] = Obj(JobA)
  /\ Len(JobA.locations.v) = 2 /\ Len(JobA.types.v) = 1
  /\ DOMAIN stats = {<<<<"L","i","s","b","o","a">>, <<"P","a","r","t","-","t","i","m","e">>>>, <<<<"P","o","r","t","o">>, <<"P","a","r","t","-","t","i","m","e">>>>}
  /\ TallySum(stats, DOMAIN stats) = 2
  /\ stats[<<<<"L","i","s","b","o","a">>, <<"P","a","r","t","-","t","i","m","e">>>>] = 1
  /\ stats[<<<<"P","o","r","t","o">>, <<"P","a","r","t","-","t","i","m","e">>>>] = 1

\* the anchors of the ranking page in r that match the company name
MatchingAnchors(r) ==
  IF r.exc \/ r.status # 200 \/ r.body.empty \/ company.t # "str" THEN {}
  ELSE {i \in 1..Len(r.body.anchors) :
          /\ Contains(r.body.anchors[i].href, <<"/","c","o","m","p","a","n","i","e","s","/">>)
          /\ strip(r.body.anchors[i].text) # <<>>
          /\ normalize_text(company.v) # <<>>
          /\ Contains(normalize_text(r.body.anchors[i].text), normalize_text(company.v))}

\* the absolute URL of anchor i
AnchorUrl(r, i) ==
  IF SubSeq(r.body.anchors[i].href, 1, 4) = <<"h","t","t","p">> THEN r.body.anchors[i].href
  ELSE <<"h","t","t","p","s",":","/","/","p","t",".","t","e","a","m","l","y","z","e","r",".","c","o","m">> \o r.body.anchors[i].href

ExtractorsReturn(j) ==
  /\ extract_job_date(j).t # "raise"
  /\ extract_company_name(j).t # "raise"
  /\ extract_salary(j).t # "raise"
  /\ extract_locations(j).t # "raise"

\* C8: extract_job_date, extract_company_name, extract_salary and
\* extract_locations raise no error on any record the service returns,
\* whatever the type of its fields (title and body included).
C8_ExtractorsNeverFail ==
  (cmd = "top" /\ args.csv /\ stdout # <<>>) =>
    /\ \A i \in 1..Len(stdout[1].v.v) : ExtractorsReturn(stdout[1].v.v[i].v)
    /\ pc = "done"

\* C9: extract_company_name returns a string for every record.
C9_CompanyNameIsString ==
  (cmd = "get" /\ DOMAIN job # {}) =>
    /\ company.t = "str"
    /\ extract_company_name(job).t = "str"

\* C10: with the credential missing or at the placeholder, a command of
\* the listings API issues no network request, prints no result, writes no
\* file and does not complete; it ends with the error of api_get.
C10_NoKeyNoRequest ==
  (API_KEY \in {"", "AQUI_A_TUA_API_KEY"} /\ cmd \in {"top", "search", "type", "skills", "get", "zone"}) =>
    /\ requests = <<>>
    /\ files = {}
    /\ pc \in {"start", "loop", "exit1", "error"}
    /\ pc = "error" => err = "RuntimeError"
    /\ pc = "loop" => cmd = "skills"
    /\ stdout = <<>> \/ (cmd = "skills" /\ pc = "exit1" /\ stdout \in {<<Text(MsgDates)>>, <<Text(MsgOrder)>>})

\* get jobID was aborted by the placeholder credential before any request
C10_Witness ==
  /\ API_KEY = "AQUI_A_TUA_API_KEY"
  /\ cmd = "get" /\ pc = "error" /\ err = "RuntimeError"
  /\ requests = <<>> /\ stdout = <<>>

====
